---- MODULE Spec2Model ----
(***************************************************************************)
(* avif-converter: the batch run of src/index.js (main), the per-file      *)
(* conversion (convertImage), the directory helpers of utils.js and the    *)
(* summary of cli.js (printSummary).                                       *)
(*                                                                         *)
(* A path is a sequence of segments, a segment a sequence of characters    *)
(* (one-character strings): /in/d/a.png is                                 *)
(*   << <<"i","n">>, <<"d">>, <<"a",".","p","n","g">> >>.                  *)
(* JavaScript runs one callback at a time: a job's continuation runs only  *)
(* while main is suspended at an await.                                    *)
(***************************************************************************)
EXTENDS Integers, Sequences, FiniteSets

VARIABLES
    pc,          \* where main() is: its current await or step
    options,     \* program.opts(), what the command line gave
    config,      \* the config main builds of them, with isInteractive
    concurrency, \* os.cpus().length
    inputPath,   \* path.resolve(cwd, config.input)
    outputPath,  \* path.resolve(cwd, config.output)
    fsDirs,      \* the directories that exist
    fsFiles,     \* the files that exist
    files,       \* the list findImages returned
    idx,         \* how many jobs the for loop has started
    job,         \* per job: the await convertImage is at, and its locals
    executing,   \* the array `executing` (promises, named by job index)
    results,     \* the array `results`
    waitSet,     \* the promises the pending Promise.race / Promise.all took
    warned,      \* the reset warning of line 103 was printed
    summary,     \* what printSummary computed (NoSummary before)
    exitCode     \* process.exit status ("none" while running)

vars == <<pc, options, config, concurrency, inputPath, outputPath, fsDirs, fsFiles,
          files, idx, job, executing, results, waitSet, warned, summary,
          exitCode>>

(***************************************************************************)
(* Bounds                                                                  *)
(***************************************************************************)
MaxFiles == 2
MaxConcurrency == 3
MaxResults == 3
MaxNameLen == 4
WindowFiles == 3
WindowLimit == 2

(***************************************************************************)
(* Sequences                                                               *)
(***************************************************************************)
Range(s) == {s[i] : i \in 1..Len(s)}

IsPrefix(p, s) == Len(p) <= Len(s) /\ SubSeq(s, 1, Len(p)) = p

RECURSIVE CommonLen(_, _)
CommonLen(a, b) ==
    IF a = <<>> \/ b = <<>> \/ Head(a) # Head(b) THEN 0
    ELSE 1 + CommonLen(Tail(a), Tail(b))

\* Array.prototype.indexOf: the first index holding x, -1 (here 0) when none
IndexOf(s, x) ==
    IF \E i \in 1..Len(s) : s[i] = x
    THEN CHOOSE i \in 1..Len(s) : s[i] = x /\ \A k \in 1..(i - 1) : s[k] # x
    ELSE 0

\* mutant of Splice1: splice(i) without the count removes up to the end
SpliceToEnd(s, i) ==
    LET at == IF i = 0 THEN Len(s) ELSE i
    IN  IF s = <<>> THEN s ELSE SubSeq(s, 1, at - 1)

\* Array.prototype.splice(i, 1) with i = indexOf(..): index -1 counts from the
\* end, so it removes the last element
Splice1(s, i) ==
    LET at == IF i = 0 THEN Len(s) ELSE i
    IN  IF s = <<>> THEN s
        ELSE SubSeq(s, 1, at - 1) \o SubSeq(s, at + 1, Len(s))

Perms(S) == {s \in [1..Cardinality(S) -> S] : Range(s) = S}

(***************************************************************************)
(* node:path on normalized absolute paths                                  *)
(***************************************************************************)
DotDot == <<".", ".">>

\* path.normalize of a segment list: ".." removes the segment before it
RECURSIVE Normalize(_, _)
Normalize(done, rest) ==
    IF rest = <<>> THEN done
    ELSE IF Head(rest) = DotDot
         THEN Normalize(IF done = <<>> THEN done
                        ELSE SubSeq(done, 1, Len(done) - 1), Tail(rest))
         ELSE Normalize(Append(done, Head(rest)), Tail(rest))

\* path.relative(from, to)
PathRelative(from, to) ==
    LET c == CommonLen(from, to)
    IN  [i \in 1..(Len(from) - c) |-> DotDot] \o SubSeq(to, c + 1, Len(to))

\* path.join(a, b)
PathJoin(a, b) == Normalize(<<>>, a \o b)

\* path.dirname(p)
PathDirname(p) == IF p = <<>> THEN p ELSE SubSeq(p, 1, Len(p) - 1)

\* path.basename(p): the last segment
PathBasename(p) == IF p = <<>> THEN <<>> ELSE p[Len(p)]

\* the index of the last "." of a name, 0 when it has none
LastDot(name) ==
    IF \E i \in 1..Len(name) : name[i] = "."
    THEN CHOOSE i \in 1..Len(name) :
            name[i] = "." /\ \A k \in (i + 1)..Len(name) : name[k] # "."
    ELSE 0

\* path.extname(p): from the last "." of the base name to its end; empty when
\* there is no "." or the only "." is the first character, or the name is ".."
PathExtname(p) ==
    LET name == PathBasename(p)
        d == LastDot(name)
    IN  IF d <= 1 \/ name = DotDot THEN <<>>
        ELSE SubSeq(name, d, Len(name))

\* path.basename(p, ext): the base name without a trailing ext, unless ext is
\* the whole name
PathBasenameExt(p, ext) ==
    LET name == PathBasename(p)
        n == Len(name)
        e == Len(ext)
    IN  IF e > 0 /\ e < n /\ SubSeq(name, n - e + 1, n) = ext
        THEN SubSeq(name, 1, n - e)
        ELSE name

\* `${fileName}.avif`
AvifExt == <<".", "a", "v", "i", "f">>

(***************************************************************************)
(* convertImage: the paths it derives (index.js 182-185, 213-214)          *)
(***************************************************************************)
\* mutant of OutputDir: the relative directory is dropped
OutputDirFlat(filePath, inputRoot, outputRoot) == outputRoot

OutputDir(filePath, inputRoot, outputRoot) ==
    PathDirname(PathJoin(outputRoot, PathRelative(inputRoot, filePath)))

OutputFileName(filePath) ==
    PathBasenameExt(filePath, PathExtname(filePath))

OutputFilePath(filePath, inputRoot, outputRoot) ==
    PathJoin(OutputDir(filePath, inputRoot, outputRoot),
             << OutputFileName(filePath) \o AvifExt >>)

FallbackFilePath(filePath, inputRoot, outputRoot) ==
    PathJoin(OutputDir(filePath, inputRoot, outputRoot),
             << PathBasename(filePath) >>)

(***************************************************************************)
(* The environment: the roots, the files under the input root, and what    *)
(* the decoder and the encoders make of a file                             *)
(***************************************************************************)
InputRoot == << <<"i", "n">> >>
OutputRoot == << <<"o", "u", "t">> >>

Letters == <<"a", "b", "c", "d", "e", "f", "g", "h">>
Extensions == << <<".", "p", "n", "g">>, <<".", "j", "p", "g">>,
                 <<".", "w", "e", "b", "p">> >>
Formats == <<"png", "jpeg", "webp">>

\* the k-th candidate input file: even ones lie in the subdirectory d
CandidateFile(k) ==
    InputRoot
    \o (IF k % 2 = 0 THEN << <<"d">> >> ELSE <<>>)
    \o << <<Letters[k]>> \o Extensions[((k - 1) % 3) + 1] >>

\* its content: what fs.stat reports as size and metadata() as format
CandidateContent(k) ==
    [size |-> 100 * k, format |-> Formats[((k - 1) % 3) + 1]]

\* a file left in the output root by an earlier run
StaleFile == OutputRoot \o << <<"o", "l", "d">> >>

\* the encoders are functions of the decoded file and the options: the size
\* of the AVIF and of the re-encoded fallback of a file of `size` bytes (the
\* AVIF of some files is larger than the original)
AvifContent(c) ==
    [size |-> IF c.size % 3 = 0 THEN c.size + 1 ELSE (2 * c.size) \div 5,
     format |-> "heif"]
FallbackContent(c) ==
    [size |-> (7 * c.size) \div 10, format |-> c.format]

\* the directory p and every ancestor of it (what mkdir recursive creates)
Ancestors(p) == {SubSeq(p, 1, n) : n \in 1..Len(p)}

\* the file system with `path` holding `content`
WriteFile(fs, path, content) ==
    [q \in DOMAIN fs \cup {path} |-> IF q = path THEN content ELSE fs[q]]

\* the file system without the paths of `gone`
RemoveFiles(fs, gone) == [q \in DOMAIN fs \ gone |-> fs[q]]

\* the outcomes of an operation of the environment: it may fail whenever,
\* and it can succeed only when `possible`
Outcomes(possible) == IF possible THEN {TRUE, FALSE} ELSE {FALSE}

(***************************************************************************)
(* Results (index.js 239-260)                                              *)
(***************************************************************************)
NoResult == [none |-> TRUE]
NoSummary == [none |-> TRUE]

SuccessResult(filePath, outputFilePath, fallbackFilePath, originalSize, format, avifSize, fallbackSize) ==
    [success |-> TRUE,
     inputPath |-> filePath,
     avif |-> [path |-> outputFilePath, size |-> avifSize],
     fallback |-> [path |-> fallbackFilePath, size |-> fallbackSize,
                   format |-> format],
     originalSize |-> originalSize]

FailureResult(filePath, message) ==
    [success |-> FALSE, inputPath |-> filePath, error |-> message]

(***************************************************************************)
(* printSummary (cli.js 54-88)                                             *)
(***************************************************************************)
\* r.originalSize || 0, r.avif?.size || 0, r.fallback?.size || 0
OriginalSizeOr0(r) == IF "originalSize" \in DOMAIN r THEN r.originalSize ELSE 0
AvifSizeOr0(r) == IF "avif" \in DOMAIN r THEN r.avif.size ELSE 0
FallbackSizeOr0(r) == IF "fallback" \in DOMAIN r THEN r.fallback.size ELSE 0

IsSuccess(r) == r.success
IsFailure(r) == ~r.success

\* mutant of ReduceOriginal: the callback returns the size, not acc + size
RECURSIVE ReduceOriginalAssign(_, _)
ReduceOriginalAssign(rs, acc) ==
    IF rs = <<>> THEN acc
    ELSE ReduceOriginalAssign(Tail(rs), OriginalSizeOr0(Head(rs)))

\* results.reduce((acc, r) => acc + ..., 0), one operator per reduced field
RECURSIVE ReduceOriginal(_, _)
ReduceOriginal(rs, acc) ==
    IF rs = <<>> THEN acc
    ELSE ReduceOriginal(Tail(rs), acc + OriginalSizeOr0(Head(rs)))

RECURSIVE ReduceAvif(_, _)
ReduceAvif(rs, acc) ==
    IF rs = <<>> THEN acc
    ELSE ReduceAvif(Tail(rs), acc + AvifSizeOr0(Head(rs)))

RECURSIVE ReduceFallback(_, _)
ReduceFallback(rs, acc) ==
    IF rs = <<>> THEN acc
    ELSE ReduceFallback(Tail(rs), acc + FallbackSizeOr0(Head(rs)))

\* Math.round(x) is floor(x + 1/2) of the double x = (1 - part / total) * 100.
\* The doubles are exact enough to round as the exact value does, except
\* where the exact value is a tie k + 1/2: there part / total is
\* (199 - 2k) / 200, and the double x lies just below the tie for the k of
\* this table (IEEE 754 binary64, k in -400..99, which covers every ratio
\* with part <= 5 * total) and at or above it for every other k.
TiesRoundedDown ==
    {-399, -386, -382, -378, -374, -361, -357, -353, -349, -336, -332,
     -328, -324, -311, -307, -303, -256, -237, -235, -233, -231, -212,
     -210, -208, -206, -187, -185, -183, -181, -162, -160, -158, -156,
     -137, -135, -133, -131, -127, -125, -123, -112, -110, -108, -106,
     -104, -102, -100, -99, -98, -97, -75, -74, -73, -72, -50, -49, -48,
     -47, -46, -45, -44, -43, -25, -24, -23, -22, -21, -20, -19, -18, -17,
     -16, -15, 6, 7, 8, 9, 10, 19, 20, 21, 22, 31, 32, 44, 45, 53, 54, 55,
     56, 57}

\* x + 1/2 = (200 * (total - part) + total) / (2 * total). -0 prints as 0.
RoundedReduction(part, total) ==
    LET scaled == 200 * (total - part) + total
        up == scaled \div (2 * total)
    IN  IF scaled % (2 * total) = 0 /\ (up - 1) \in TiesRoundedDown
        THEN up - 1 ELSE up

\* mutant of Reduction: a negative reduction is clamped to 0
ReductionClamped(part, total) ==
    IF total > 0 /\ RoundedReduction(part, total) > 0
    THEN RoundedReduction(part, total) ELSE 0

\* totalOriginalSize > 0 ? Math.round((1 - part / total) * 100) : 0
Reduction(part, total) ==
    IF total > 0 THEN RoundedReduction(part, total) ELSE 0

\* mutant of ErrorList: the failed results are listed last first
ErrorListReversed(rs) ==
    LET failed == SelectSeq(rs, IsFailure)
        n == Len(failed)
    IN  [i \in 1..n |-> <<failed[n + 1 - i].inputPath, failed[n + 1 - i].error>>]

\* the lines of the error listing: results.filter(r => !r.success).forEach
ErrorList(rs) ==
    LET failed == SelectSeq(rs, IsFailure)
    IN  [i \in 1..Len(failed) |-> <<failed[i].inputPath, failed[i].error>>]

PrintSummary(rs) ==
    LET successCount == Len(SelectSeq(rs, IsSuccess))
        failCount == Len(SelectSeq(rs, IsFailure))
        totalOriginalSize == ReduceOriginal(rs, 0)
        totalAvifSize == ReduceAvif(rs, 0)
        totalFallbackSize == ReduceFallback(rs, 0)
    IN  [successCount |-> successCount,
         failCount |-> failCount,
         totalOriginalSize |-> totalOriginalSize,
         totalAvifSize |-> totalAvifSize,
         totalFallbackSize |-> totalFallbackSize,
         avifReduction |-> Reduction(totalAvifSize, totalOriginalSize),
         fallbackReduction |-> Reduction(totalFallbackSize, totalOriginalSize),
         errors |-> IF failCount > 0 THEN ErrorList(rs) ELSE <<>>]

(***************************************************************************)
(* findImages (utils.js 11-29)                                             *)
(***************************************************************************)
DefaultExtensions ==
    {<<".", "p", "n", "g">>, <<".", "j", "p", "g">>,
     <<".", "j", "p", "e", "g">>, <<".", "w", "e", "b", "p">>}

\* the glob pattern against a file name: "*" never matches a leading "."
\* (glob's dot: false); the default pattern wants one of four extensions
MatchesPattern(name, pattern) ==
    /\ name # <<>>
    /\ name[1] # "."
    /\ \/ pattern = "*"
       \/ /\ pattern = "*.{png,jpg,jpeg,webp}"
          /\ \E e \in DefaultExtensions :
                /\ Len(name) > Len(e)
                /\ SubSeq(name, Len(name) - Len(e) + 1, Len(name)) = e

\* the files glob finds under `directory` (none of the modelled paths lies
\* under node_modules or a dot directory)
FoundImages(fs, directory, pattern) ==
    {f \in DOMAIN fs :
        /\ IsPrefix(directory, f)
        /\ Len(f) > Len(directory)
        /\ MatchesPattern(PathBasename(f), pattern)}

\* the order glob lists a set of files in: the order of its walk, by name
NameKey(f) == IndexOf(Letters, PathBasename(f)[1])
GlobOrder(S) ==
    CHOOSE s \in Perms(S) :
        \A i \in 1..(Len(s) - 1) : NameKey(s[i]) <= NameKey(s[i + 1])

(***************************************************************************)
(* The state after program.parse and before main() runs                    *)
(***************************************************************************)
DefaultPattern == "*.{png,jpg,jpeg,webp}"

JobIds == 1..Len(job)

NewJob == [pc |-> "idle", originalSize |-> 0, format |-> "", avifSize |-> 0,
           result |-> NoResult]

\* main has not started: nothing discovered, nothing in flight
Fresh ==
    /\ pc = "start"
    /\ files = <<>>
    /\ idx = 0
    /\ job = <<>>
    /\ executing = <<>>
    /\ results = <<>>
    /\ waitSet = {}
    /\ warned = FALSE
    /\ summary = NoSummary
    /\ exitCode = "none"

\* the file system holding the candidate files `present` and, when the
\* output root exists, the stale file in it
InitialFiles(present, outExists) ==
    [q \in {CandidateFile(k) : k \in present}
           \cup (IF outExists THEN {StaleFile} ELSE {}) |->
        IF q = StaleFile THEN [size |-> 1, format |-> "png"]
        ELSE CandidateContent(CHOOSE k \in present : CandidateFile(k) = q)]

InitialDirs(present, inExists, outExists) ==
    (IF inExists
     THEN {InputRoot} \cup UNION {Ancestors(PathDirname(CandidateFile(k))) :
                                    k \in present}
     ELSE {})
    \cup (IF outExists THEN {OutputRoot} ELSE {})

\* -q and -e when the option is absent (undefined); a given option is <<n>>,
\* the number parseInt read
NotGiven == <<>>

DefaultQuality == 80
DefaultEffort == 4

\* program.opts(): -i and -o given or not, -q and -e, -p (with its default)
\* and -y
OptionSets(qualities, efforts, patterns) ==
    [input : BOOLEAN, output : BOOLEAN, quality : qualities,
     effort : efforts, pattern : patterns, yes : BOOLEAN]

\* options.quality || 80, options.effort || 4: undefined and 0 are falsy
OrDefault(option, default) ==
    IF option = NotGiven \/ option[1] = 0 THEN default ELSE option[1]

\* lines 34-45: isInteractive and config
MakeConfig(o) ==
    [isInteractive |-> ~o.input /\ ~o.output,
     quality |-> OrDefault(o.quality, DefaultQuality),
     effort |-> OrDefault(o.effort, DefaultEffort),
     pattern |-> o.pattern,
     yes |-> o.yes]

\* the command lines without -q and -e: -i and -o both or neither, and -y,
\* which is looked at in interactive mode only
PlainOptions(patterns) ==
    {o \in OptionSets({NotGiven}, {NotGiven}, patterns) :
        /\ o.input = o.output
        /\ o.yes => ~o.input}

\* the command line without any option but -p
NoOptions(pattern) ==
    [input |-> FALSE, output |-> FALSE, quality |-> NotGiven,
     effort |-> NotGiven, pattern |-> pattern, yes |-> FALSE]

\* the answers askQuestions can return for the quality (cli.js 23-28)
AnswerQualities == {0, DefaultQuality}

Init ==
    /\ Fresh
    /\ options \in PlainOptions({DefaultPattern})
    /\ config = MakeConfig(options)
    /\ concurrency \in 1..MaxConcurrency
    /\ inputPath = InputRoot
    /\ outputPath = OutputRoot
    /\ \E inExists \in BOOLEAN, outExists \in BOOLEAN :
       \E present \in SUBSET (1..MaxFiles) :
          /\ inExists \/ present = {}
          /\ fsFiles = InitialFiles(present, outExists)
          /\ fsDirs = InitialDirs(present, inExists, outExists)

(***************************************************************************)
(* ensureDirectory and cleanDirectory (utils.js 36-59), one await at a time*)
(***************************************************************************)
\* fs.access(dirPath) can succeed only on what exists
AccessOutcomes(dirs, fs, p) == Outcomes(p \in dirs \/ p \in DOMAIN fs)

\* fs.mkdir(dirPath, {recursive: true}) creates the directory and its
\* missing ancestors; it cannot where a file is in the way
MkdirOutcomes(fs, p) == Outcomes(Ancestors(p) \cap DOMAIN fs = {})
DirsAfterMkdir(dirs, p) == dirs \cup Ancestors(p)

\* fs.rm(dirPath, {recursive: true, force: true}): the tree under p is gone
DirsAfterRm(dirs, p) == {d \in dirs : ~IsPrefix(p, d)}
FilesAfterRm(fs, p) == RemoveFiles(fs, {f \in DOMAIN fs : IsPrefix(p, f)})

(***************************************************************************)
(* main (index.js 27-153)                                                  *)
(***************************************************************************)
Exit(code) ==
    /\ pc' = "exited"
    /\ exitCode' = code

\* lines 28-51: the options are read; interactive mode asks first
Start ==
    /\ pc = "start"
    /\ pc' = IF config.isInteractive THEN "ask" ELSE "checkInput"
    /\ UNCHANGED <<options, config, concurrency, inputPath, outputPath,
                   fsDirs, fsFiles, files, idx, job, executing, results,
                   waitSet, warned, summary, exitCode>>

\* lines 47-55: await askQuestions(); the answers are merged into config.
\* They name the same roots here, and a quality.
AskQuestions ==
    /\ pc = "ask"
    /\ pc' = "checkInput"
    /\ \E quality \in AnswerQualities :
          config' = [config EXCEPT !.quality = quality]
    /\ UNCHANGED <<options, concurrency, inputPath, outputPath,
                   fsDirs, fsFiles, files, idx, job, executing, results,
                   waitSet, warned, summary, exitCode>>

\* mutant of CheckInput: the catch reports the error and does not exit
CheckInputGoesOn ==
    /\ pc = "checkInput"
    /\ \E ok \in AccessOutcomes(fsDirs, fsFiles, inputPath) : pc' = "find"
    /\ UNCHANGED <<options, config, concurrency, inputPath, outputPath,
                   fsDirs, fsFiles, files, idx, job, executing, results,
                   waitSet, warned, summary, exitCode>>

\* lines 58-63: await ensureDirectory(inputPath, false); a failed access
\* throws, and the catch exits with status 1
CheckInput ==
    /\ pc = "checkInput"
    /\ \E ok \in AccessOutcomes(fsDirs, fsFiles, inputPath) :
          IF ok THEN pc' = "find" /\ UNCHANGED exitCode
          ELSE Exit(1)
    /\ UNCHANGED <<options, config, concurrency, inputPath, outputPath,
                   fsDirs, fsFiles, files, idx, job, executing, results,
                   waitSet, warned, summary>>

\* mutant of FindImages: no early exit on an empty list
FindImagesGoesOn ==
    /\ pc = "find"
    /\ LET found == GlobOrder(FoundImages(fsFiles, inputPath, config.pattern))
       IN /\ files' = found
          /\ job' = [j \in 1..Len(found) |-> NewJob]
          /\ pc' = IF ~config.yes /\ config.isInteractive
                   THEN "confirm" ELSE "cleanRm"
    /\ UNCHANGED <<options, config, concurrency, inputPath, outputPath,
                   fsDirs, fsFiles, idx, executing, results, waitSet, warned,
                   summary, exitCode>>

\* lines 69-87: await findImages; no file: exit 0; then the confirmation,
\* asked in interactive mode
FindImages ==
    /\ pc = "find"
    /\ LET found == GlobOrder(FoundImages(fsFiles, inputPath, config.pattern))
       IN /\ files' = found
          /\ job' = [j \in 1..Len(found) |-> NewJob]
          /\ IF Len(found) = 0 THEN Exit(0)
             ELSE /\ pc' = IF ~config.yes /\ config.isInteractive
                           THEN "confirm" ELSE "cleanRm"
                  /\ UNCHANGED exitCode
    /\ UNCHANGED <<options, config, concurrency, inputPath, outputPath,
                   fsDirs, fsFiles, idx, executing, results, waitSet, warned,
                   summary>>

\* lines 81-87: await confirmProcessing; declined: exit 0
ConfirmProcessing ==
    /\ pc = "confirm"
    /\ \E confirmed \in BOOLEAN :
          IF confirmed THEN pc' = "cleanRm" /\ UNCHANGED exitCode
          ELSE Exit(0)
    /\ UNCHANGED <<options, config, concurrency, inputPath, outputPath,
                   fsDirs, fsFiles, files, idx, job, executing, results,
                   waitSet, warned, summary>>

\* lines 93-105 with cleanDirectory's fs.rm: a failure is rethrown by
\* cleanDirectory without a code, so main's catch warns and goes on
CleanRm ==
    /\ pc = "cleanRm"
    /\ \E ok \in Outcomes(TRUE) :
          IF ok
          THEN /\ fsDirs' = DirsAfterRm(fsDirs, outputPath)
               /\ fsFiles' = FilesAfterRm(fsFiles, outputPath)
               /\ pc' = "cleanMkdir"
               /\ UNCHANGED warned
          ELSE /\ warned' = TRUE
               /\ pc' = "ensureOutAccess"
               /\ UNCHANGED <<fsDirs, fsFiles>>
    /\ UNCHANGED <<options, config, concurrency, inputPath, outputPath,
                   files, idx, job, executing, results, waitSet, summary,
                   exitCode>>

\* cleanDirectory's fs.mkdir (utils.js 55), under the same catch
CleanMkdir ==
    /\ pc = "cleanMkdir"
    /\ \E ok \in MkdirOutcomes(fsFiles, outputPath) :
          IF ok
          THEN /\ fsDirs' = DirsAfterMkdir(fsDirs, outputPath)
               /\ UNCHANGED warned
          ELSE /\ warned' = TRUE
               /\ UNCHANGED fsDirs
    /\ pc' = "ensureOutAccess"
    /\ UNCHANGED <<options, config, concurrency, inputPath, outputPath,
                   fsFiles, files, idx, job, executing, results, waitSet,
                   summary, exitCode>>

\* line 106: await ensureDirectory(outputPath, true), its fs.access
EnsureOutputAccess ==
    /\ pc = "ensureOutAccess"
    /\ \E ok \in AccessOutcomes(fsDirs, fsFiles, outputPath) :
          pc' = IF ok THEN "loop" ELSE "ensureOutMkdir"
    /\ UNCHANGED <<options, config, concurrency, inputPath, outputPath,
                   fsDirs, fsFiles, files, idx, job, executing, results,
                   waitSet, warned, summary, exitCode>>

\* line 106, its fs.mkdir: no try around the call, so a failure rejects
\* main() and the handler of lines 155-158 exits with status 1
EnsureOutputMkdir ==
    /\ pc = "ensureOutMkdir"
    /\ \E ok \in MkdirOutcomes(fsFiles, outputPath) :
          IF ok
          THEN /\ fsDirs' = DirsAfterMkdir(fsDirs, outputPath)
               /\ pc' = "loop"
               /\ UNCHANGED exitCode
          ELSE /\ Exit(1)
               /\ UNCHANGED fsDirs
    /\ UNCHANGED <<options, config, concurrency, inputPath, outputPath,
                   fsFiles, files, idx, job, executing, results, waitSet,
                   warned, summary>>

(***************************************************************************)
(* main: the scheduling loop (index.js 116-152)                            *)
(***************************************************************************)
\* mutant of WindowFull: > for >=
WindowOver(queue, limit) == Len(queue) > limit

\* line 140: executing.length >= concurrency
WindowFull(queue, limit) == Len(queue) >= limit

\* mutant of LoopStartJob: the list is walked from its end
LoopStartJobFromEnd ==
    /\ pc = "loop"
    /\ idx < Len(files)
    /\ idx' = idx + 1
    /\ job' = [job EXCEPT ![Len(files) - idx].pc = "access"]
    /\ executing' = Append(executing, Len(files) - idx)
    /\ IF WindowFull(executing', concurrency)
       THEN pc' = "race" /\ waitSet' = Range(executing')
       ELSE pc' = "loop" /\ UNCHANGED waitSet
    /\ UNCHANGED <<options, config, concurrency, inputPath, outputPath,
                   fsDirs, fsFiles, files, results, warned, summary,
                   exitCode>>

\* lines 121-142, one iteration: task() runs convertImage up to its first
\* await (the fs.access of ensureDirectory), p is pushed, and the loop
\* awaits Promise.race(executing) when the window is full
LoopStartJob ==
    /\ pc = "loop"
    /\ idx < Len(files)
    /\ idx' = idx + 1
    /\ job' = [job EXCEPT ![idx + 1].pc = "access"]
    /\ executing' = Append(executing, idx + 1)
    /\ IF WindowFull(executing', concurrency)
       THEN pc' = "race" /\ waitSet' = Range(executing')
       ELSE pc' = "loop" /\ UNCHANGED waitSet
    /\ UNCHANGED <<options, config, concurrency, inputPath, outputPath,
                   fsDirs, fsFiles, files, results, warned, summary,
                   exitCode>>

\* line 145: the loop is over, await Promise.all(executing)
LoopEnd ==
    /\ pc = "loop"
    /\ idx = Len(files)
    /\ pc' = "all"
    /\ waitSet' = Range(executing)
    /\ UNCHANGED <<options, config, concurrency, inputPath, outputPath,
                   fsDirs, fsFiles, files, idx, job, executing, results,
                   warned, summary, exitCode>>

\* mutant of RaceSettled: Promise.all where Promise.race is meant, the wait
\* of a fixed batch
RaceAllSettled(waiting, jobs) == \A j \in waiting : jobs[j].pc = "settled"

\* Promise.race settles once one of its promises has
RaceSettled(waiting, jobs) == \E j \in waiting : jobs[j].pc = "settled"

\* mutant of AllSettled: Promise.race where Promise.all is meant
AnySettled(waiting, jobs) ==
    waiting = {} \/ \E j \in waiting : jobs[j].pc = "settled"

\* Promise.all settles once all of its promises have
AllSettled(waiting, jobs) == \A j \in waiting : jobs[j].pc = "settled"

\* line 141 resumes
RaceResume ==
    /\ pc = "race"
    /\ RaceSettled(waitSet, job)
    /\ pc' = "loop"
    /\ waitSet' = {}
    /\ UNCHANGED <<options, config, concurrency, inputPath, outputPath,
                   fsDirs, fsFiles, files, idx, job, executing, results,
                   warned, summary, exitCode>>

\* line 145 resumes
AllResume ==
    /\ pc = "all"
    /\ AllSettled(waitSet, job)
    /\ pc' = "summary"
    /\ waitSet' = {}
    /\ UNCHANGED <<options, config, concurrency, inputPath, outputPath,
                   fsDirs, fsFiles, files, idx, job, executing, results,
                   warned, summary, exitCode>>

\* lines 147-153: printSummary(results, ..); main returns and the process
\* ends with status 0
PrintSummaryStep ==
    /\ pc = "summary"
    /\ summary' = PrintSummary(results)
    /\ pc' = "done"
    /\ exitCode' = 0
    /\ UNCHANGED <<options, config, concurrency, inputPath, outputPath,
                   fsDirs, fsFiles, files, idx, job, executing, results,
                   waitSet, warned>>

(***************************************************************************)
(* convertImage (index.js 173-262), one await at a time. A continuation of *)
(* a job runs only while main is suspended in Promise.race / Promise.all.  *)
(***************************************************************************)
Suspended == pc \in {"race", "all"}

JobOutputDir(j) == OutputDir(files[j], inputPath, outputPath)
JobOutputFilePath(j) == OutputFilePath(files[j], inputPath, outputPath)
JobFallbackFilePath(j) == FallbackFilePath(files[j], inputPath, outputPath)

\* toFile(target) of a pipeline reading files[j]: the input must be there,
\* the target's directory too, and sharp refuses to write onto its input
CanWrite(j, target) ==
    /\ files[j] \in DOMAIN fsFiles
    /\ PathDirname(target) \in fsDirs
    /\ target \notin fsDirs
    /\ target # files[j]

\* mutant of Settle: executing.shift() for the splice of p
SettleShift(j, res) ==
    /\ results' = Append(results, res)
    /\ executing' = Tail(executing)
    /\ job' = [job EXCEPT ![j].pc = "settled", ![j].result = res]

\* lines 133-136, the then callback of task(): the result is pushed and p is
\* spliced out of executing; p is settled when the callback returns. It runs
\* in the microtasks that follow convertImage's return, before any other
\* callback.
Settle(j, res) ==
    /\ results' = Append(results, res)
    /\ executing' = Splice1(executing, IndexOf(executing, j))
    /\ job' = [job EXCEPT ![j].pc = "settled", ![j].result = res]

\* mutant of JobFails: the catch returns nothing, and no result is collected
JobFailsWithoutResult(j, message) ==
    /\ executing' = Splice1(executing, IndexOf(executing, j))
    /\ job' = [job EXCEPT ![j].pc = "settled",
                          ![j].result = FailureResult(files[j], message)]
    /\ UNCHANGED results

\* lines 255-261: the catch returns the failure result
JobFails(j, message) == Settle(j, FailureResult(files[j], message))

\* the job goes on to its next await
JobGoes(j, next) ==
    /\ job' = [job EXCEPT ![j].pc = next]
    /\ UNCHANGED <<results, executing>>

JobFrame ==
    UNCHANGED <<pc, options, config, concurrency, inputPath, outputPath,
                files, idx, waitSet, warned, summary, exitCode>>

\* line 188, ensureDirectory(outputDir): fs.access
JobAccess(j) ==
    /\ Suspended
    /\ job[j].pc = "access"
    /\ \E ok \in AccessOutcomes(fsDirs, fsFiles, JobOutputDir(j)) :
          JobGoes(j, IF ok THEN "stat" ELSE "mkdir")
    /\ UNCHANGED <<fsDirs, fsFiles>>
    /\ JobFrame

\* mutant of JobMkdir: fs.mkdir without recursive, which raises EEXIST on a
\* directory that exists
JobMkdirExclusive(j) ==
    /\ Suspended
    /\ job[j].pc = "mkdir"
    /\ \E ok \in Outcomes(JobOutputDir(j) \notin fsDirs) :
          IF ok
          THEN /\ fsDirs' = DirsAfterMkdir(fsDirs, JobOutputDir(j))
               /\ JobGoes(j, "stat")
          ELSE /\ JobFails(j, "mkdir")
               /\ UNCHANGED fsDirs
    /\ UNCHANGED fsFiles
    /\ JobFrame

\* line 188, ensureDirectory(outputDir): fs.mkdir recursive
JobMkdir(j) ==
    /\ Suspended
    /\ job[j].pc = "mkdir"
    /\ \E ok \in MkdirOutcomes(fsFiles, JobOutputDir(j)) :
          IF ok
          THEN /\ fsDirs' = DirsAfterMkdir(fsDirs, JobOutputDir(j))
               /\ JobGoes(j, "stat")
          ELSE /\ JobFails(j, "mkdir")
               /\ UNCHANGED fsDirs
    /\ UNCHANGED fsFiles
    /\ JobFrame

\* lines 191-192: fs.stat(filePath)
JobStat(j) ==
    /\ Suspended
    /\ job[j].pc = "stat"
    /\ \E ok \in Outcomes(files[j] \in DOMAIN fsFiles) :
          IF ok
          THEN /\ job' = [job EXCEPT ![j].pc = "metadata",
                              ![j].originalSize = fsFiles[files[j]].size]
               /\ UNCHANGED <<results, executing>>
          ELSE JobFails(j, "stat")
    /\ UNCHANGED <<fsDirs, fsFiles>>
    /\ JobFrame

\* lines 196-198: image.metadata()
JobMetadata(j) ==
    /\ Suspended
    /\ job[j].pc = "metadata"
    /\ \E ok \in Outcomes(files[j] \in DOMAIN fsFiles) :
          IF ok
          THEN /\ job' = [job EXCEPT ![j].pc = "avif",
                              ![j].format = fsFiles[files[j]].format]
               /\ UNCHANGED <<results, executing>>
          ELSE JobFails(j, "decode")
    /\ UNCHANGED <<fsDirs, fsFiles>>
    /\ JobFrame

\* lines 201-208: the AVIF is written to outputFilePath
JobAvif(j) ==
    /\ Suspended
    /\ job[j].pc = "avif"
    /\ \E ok \in Outcomes(CanWrite(j, JobOutputFilePath(j))) :
          IF ok
          THEN /\ fsFiles' = WriteFile(fsFiles, JobOutputFilePath(j),
                                       AvifContent(fsFiles[files[j]]))
               /\ JobGoes(j, "avifStat")
          ELSE /\ JobFails(j, "avif encode")
               /\ UNCHANGED fsFiles
    /\ UNCHANGED fsDirs
    /\ JobFrame

\* line 210: fs.stat(outputFilePath)
JobAvifStat(j) ==
    /\ Suspended
    /\ job[j].pc = "avifStat"
    /\ \E ok \in Outcomes(JobOutputFilePath(j) \in DOMAIN fsFiles) :
          IF ok
          THEN /\ job' = [job EXCEPT
                      ![j].pc = "fallback",
                      ![j].avifSize = fsFiles[JobOutputFilePath(j)].size]
               /\ UNCHANGED <<results, executing>>
          ELSE JobFails(j, "avif stat")
    /\ UNCHANGED <<fsDirs, fsFiles>>
    /\ JobFrame

\* mutant of JobFallback: the catch removes the AVIF when the fallback fails
JobFallbackRollsBack(j) ==
    /\ Suspended
    /\ job[j].pc = "fallback"
    /\ \E ok \in Outcomes(CanWrite(j, JobFallbackFilePath(j))) :
          IF ok
          THEN /\ fsFiles' = WriteFile(fsFiles, JobFallbackFilePath(j),
                                       FallbackContent(fsFiles[files[j]]))
               /\ JobGoes(j, "fallbackStat")
          ELSE /\ JobFails(j, "fallback encode")
               /\ fsFiles' = RemoveFiles(fsFiles, {JobOutputFilePath(j)})
    /\ UNCHANGED fsDirs
    /\ JobFrame

\* lines 213-234: the fallback is written to fallbackFilePath, re-encoded in
\* the detected format
JobFallback(j) ==
    /\ Suspended
    /\ job[j].pc = "fallback"
    /\ \E ok \in Outcomes(CanWrite(j, JobFallbackFilePath(j))) :
          IF ok
          THEN /\ fsFiles' = WriteFile(fsFiles, JobFallbackFilePath(j),
                                       FallbackContent(fsFiles[files[j]]))
               /\ JobGoes(j, "fallbackStat")
          ELSE /\ JobFails(j, "fallback encode")
               /\ UNCHANGED fsFiles
    /\ UNCHANGED fsDirs
    /\ JobFrame

\* lines 235-253: fs.stat(fallbackFilePath), then the success result
JobFallbackStat(j) ==
    /\ Suspended
    /\ job[j].pc = "fallbackStat"
    /\ \E ok \in Outcomes(JobFallbackFilePath(j) \in DOMAIN fsFiles) :
          IF ok
          THEN Settle(j, SuccessResult(files[j], JobOutputFilePath(j),
                                       JobFallbackFilePath(j),
                                       job[j].originalSize, job[j].format,
                                       job[j].avifSize,
                                       fsFiles[JobFallbackFilePath(j)].size))
          ELSE JobFails(j, "fallback stat")
    /\ UNCHANGED <<fsDirs, fsFiles>>
    /\ JobFrame

Next ==
    \/ Start
    \/ AskQuestions
    \/ CheckInput
    \/ FindImages
    \/ ConfirmProcessing
    \/ CleanRm
    \/ CleanMkdir
    \/ EnsureOutputAccess
    \/ EnsureOutputMkdir
    \/ LoopStartJob
    \/ LoopEnd
    \/ RaceResume
    \/ AllResume
    \/ PrintSummaryStep
    \/ \E j \in JobIds : JobAccess(j)
    \/ \E j \in JobIds : JobMkdir(j)
    \/ \E j \in JobIds : JobStat(j)
    \/ \E j \in JobIds : JobMetadata(j)
    \/ \E j \in JobIds : JobAvif(j)
    \/ \E j \in JobIds : JobAvifStat(j)
    \/ \E j \in JobIds : JobFallback(j)
    \/ \E j \in JobIds : JobFallbackStat(j)

Spec == Init /\ [][Next]_vars

\* the event loop runs a callback whenever one is ready, and every file
\* system and encoder operation a job awaits returns
LiveSpec == Spec /\ WF_vars(Next)

(***************************************************************************)
(* convertImage on file names of every shape: one file under the input     *)
(* root, in a directory of depth 0 to 2, found by the pattern "*"          *)
(***************************************************************************)
NameChars == {"a", ".", "p"}

Names ==
    UNION {[1..n -> NameChars] : n \in 1..MaxNameLen} \ {<<".">>, DotDot}

RelativeDirs == {<<>>, << <<"d">> >>, << <<"d">>, <<"e">> >>}

InitPath ==
    /\ Fresh
    /\ options \in PlainOptions({"*"})
    /\ config = MakeConfig(options)
    /\ concurrency = 1
    /\ inputPath = InputRoot
    /\ outputPath = OutputRoot
    /\ \E d \in RelativeDirs, name \in Names :
          /\ fsFiles = [q \in {InputRoot \o d \o <<name>>} |->
                            [size |-> 100, format |-> "png"]]
          /\ fsDirs = Ancestors(InputRoot \o d)

SpecPath == InitPath /\ [][Next]_vars

(***************************************************************************)
(* The scheduling loop on a list longer than the window: an interactive    *)
(* run over WindowFiles files with WindowLimit cores                       *)
(***************************************************************************)
InitWindow ==
    /\ Fresh
    /\ options = NoOptions(DefaultPattern)
    /\ config = MakeConfig(options)
    /\ concurrency = WindowLimit
    /\ inputPath = InputRoot
    /\ outputPath = OutputRoot
    /\ fsFiles = InitialFiles(1..WindowFiles, TRUE)
    /\ fsDirs = InitialDirs(1..WindowFiles, TRUE, TRUE)

SpecWindow == InitWindow /\ [][Next]_vars

(***************************************************************************)
(* Two jobs whose files lie in one subdirectory, so that both ensure the    *)
(* same output directory, missing when the loop starts                     *)
(***************************************************************************)
SharedDirFiles == {k \in 1..(2 * MaxFiles) : k % 2 = 0}

InitEnsure ==
    /\ Fresh
    /\ options = NoOptions(DefaultPattern)
    /\ config = MakeConfig(options)
    /\ concurrency = Cardinality(SharedDirFiles)
    /\ inputPath = InputRoot
    /\ outputPath = OutputRoot
    /\ fsFiles = InitialFiles(SharedDirFiles, TRUE)
    /\ fsDirs = InitialDirs(SharedDirFiles, TRUE, TRUE)

SpecEnsure == InitEnsure /\ [][Next]_vars

(***************************************************************************)
(* Two files of one directory whose names share a base name or end in      *)
(* .avif, found by the default pattern or by the pattern "*"               *)
(***************************************************************************)
NameSamples ==
    << <<"a", ".", "p", "n", "g">>, <<"a", ".", "j", "p", "g">>,
       <<"b", ".", "p", "n", "g">>, <<"a", ".", "a", "v", "i", "f">> >>
NameSampleFormats == <<"png", "jpeg", "png", "heif">>

\* the file system holding the input root with the samples of `chosen` in it
\* and an empty output root
SampleFiles(chosen) ==
    [q \in {InputRoot \o << NameSamples[k] >> : k \in chosen} |->
        LET k == CHOOSE n \in chosen : InputRoot \o << NameSamples[n] >> = q
        IN  [size |-> 100 * k, format |-> NameSampleFormats[k]]]

InitNames ==
    /\ Fresh
    /\ options \in {NoOptions(DefaultPattern), NoOptions("*")}
    /\ config = MakeConfig(options)
    /\ concurrency = MaxFiles
    /\ inputPath = InputRoot
    /\ outputPath = OutputRoot
    /\ \E chosen \in SUBSET (1..Len(NameSamples)) :
          /\ Cardinality(chosen) = MaxFiles
          /\ fsFiles = SampleFiles(chosen)
          /\ fsDirs = {InputRoot, OutputRoot}

SpecNames == InitNames /\ [][Next]_vars

(***************************************************************************)
(* The roots the user names with -i and -o (or answers): the output root   *)
(* apart from the input root, the input root itself, or a directory in it  *)
(***************************************************************************)
InputRootChoices == {InputRoot, InputRoot \o << <<"d">> >>}
OutputRootChoices == {OutputRoot, InputRoot, InputRoot \o << <<"d">> >>}

InitRoots ==
    /\ Fresh
    /\ options = NoOptions(DefaultPattern)
    /\ config = MakeConfig(options)
    /\ concurrency = MaxFiles
    /\ inputPath \in InputRootChoices
    /\ outputPath \in OutputRootChoices
    /\ fsFiles = InitialFiles(1..MaxFiles, FALSE)
    /\ fsDirs = InitialDirs(1..MaxFiles, TRUE, FALSE)

SpecRoots == InitRoots /\ [][Next]_vars

(***************************************************************************)
(* The command lines with -q and -e: every quality and every effort the    *)
(* options are documented for, or none, over one input file                *)
(***************************************************************************)
MaxQuality == 100
MaxEffort == 9

QualityOptions == {NotGiven} \cup {<<q>> : q \in 0..MaxQuality}
EffortOptions == {NotGiven} \cup {<<e>> : e \in 0..MaxEffort}

InitConfig ==
    /\ Fresh
    /\ options \in {o \in OptionSets(QualityOptions, EffortOptions,
                                      {DefaultPattern}) : ~o.yes}
    /\ config = MakeConfig(options)
    /\ concurrency = 1
    /\ inputPath = InputRoot
    /\ outputPath = OutputRoot
    /\ fsFiles = InitialFiles({1}, FALSE)
    /\ fsDirs = InitialDirs({1}, TRUE, FALSE)

SpecConfig == InitConfig /\ [][Next]_vars

(***************************************************************************)
(* printSummary on result collections of every shape                       *)
(***************************************************************************)
SampleResults ==
    {SuccessResult(CandidateFile(1),
                   OutputFilePath(CandidateFile(1), InputRoot, OutputRoot),
                   FallbackFilePath(CandidateFile(1), InputRoot, OutputRoot),
                   original, "png", avif, fallback) :
        original \in {200, 400}, avif \in {50, 199, 201, 603},
        fallback \in {140, 402}}
    \cup {FailureResult(CandidateFile(2), message) :
            message \in {"decode", "stat"}}

\* main is about to call printSummary on some collection of results
InitSummary ==
    /\ pc = "summary"
    /\ options \in {o \in PlainOptions({DefaultPattern}) : o.input}
    /\ config = MakeConfig(options)
    /\ concurrency = 1
    /\ inputPath = InputRoot
    /\ outputPath = OutputRoot
    /\ fsDirs = {}
    /\ fsFiles = <<>>
    /\ files = <<>>
    /\ idx = 0
    /\ job = <<>>
    /\ executing = <<>>
    /\ results \in UNION {[1..n -> SampleResults] : n \in 0..MaxResults}
    /\ waitSet = {}
    /\ warned = FALSE
    /\ summary = NoSummary
    /\ exitCode = "none"

SpecSummary == InitSummary /\ [][PrintSummaryStep]_vars

(***************************************************************************)
(* The claims                                                              *)
(***************************************************************************)
\* the jobs started and not yet completed
InFlight == {j \in JobIds : job[j].pc \notin {"idle", "settled"}}

\* the indices of results that hold the result of job j
ResultsOf(j) == {i \in 1..Len(results) : results[i].inputPath = files[j]}

\* C1: in every reachable state of the scheduling loop, the number of jobs
\* started and not yet completed is at most the concurrency limit, whatever
\* the number of jobs and the order of their completions.
C1_InFlightAtMostLimit ==
    /\ Cardinality(InFlight) <= concurrency
    /\ Len(executing) <= concurrency

\* C1 witness: the window is full with two jobs in flight, main is waiting in
\* Promise.race
C1_Witness_WindowFull ==
    /\ pc = "race"
    /\ concurrency = 2
    /\ Cardinality(InFlight) = 2

\* C2: when printSummary is called the result collection holds exactly one
\* result per job, M in all, and successCount + failCount = M.
C2_OneResultPerJob ==
    pc = "done" =>
        /\ Len(results) = Len(files)
        /\ \A j \in JobIds : Cardinality(ResultsOf(j)) = 1
        /\ summary.successCount + summary.failCount = Len(files)

\* C2 witness: a batch of two jobs, one failed and one converted, is
\* summarised
C2_Witness_MixedBatchSummarised ==
    /\ pc = "done"
    /\ Len(files) = 2
    /\ summary.successCount = 1
    /\ summary.failCount = 1

\* the batch is declared complete
BatchComplete == pc \in {"summary", "done"}

\* C3: every job is eventually started and the batch eventually declared
\* complete, provided every awaited operation returns; a pending Promise.race
\* always has a promise that is or will be settled; and the batch is declared
\* complete only when no execution is in flight.
C3_AllStartedAndComplete ==
    /\ (pc = "loop") ~> (pc = "done" /\ idx = Len(files))
    /\ [](pc = "race" => waitSet # {})
    /\ [](BatchComplete =>
            /\ idx = Len(files)
            /\ InFlight = {}
            /\ executing = <<>>)

\* C3 witness: a batch of two jobs run one at a time is complete
C3_Witness_SerialBatchComplete ==
    /\ pc = "done"
    /\ concurrency = 1
    /\ Len(files) = 2
    /\ \A j \in JobIds : job[j].pc = "settled"

\* job j ended in the catch of convertImage
Failed(j) == job[j].pc = "settled" /\ ~job[j].result.success

\* C4: a failure of any step of a job becomes the failure result of that job
\* and of no other: the scheduler goes on, every other job has its own
\* result or is still to get it, and at the end every job has one.
C4_FailureIsolated ==
    \A j \in JobIds :
        Failed(j) =>
            /\ pc \in {"loop", "race", "all", "summary", "done"}
            /\ \E i \in 1..Len(results) :
                  /\ ResultsOf(j) = {i}
                  /\ results[i] = job[j].result
                  /\ results[i].error \in
                        {"mkdir", "stat", "decode", "avif encode", "avif stat",
                         "fallback encode", "fallback stat"}
            /\ \A k \in JobIds \ {j} :
                  /\ job[k].pc = "settled" <=> Cardinality(ResultsOf(k)) = 1
                  /\ job[k].pc # "settled" => ResultsOf(k) = {}
            /\ pc = "done" => \A k \in JobIds : Cardinality(ResultsOf(k)) = 1

\* C4 witness: the first job failed while decoding and the second job, started
\* after that, was converted
C4_Witness_SecondJobConvertedAfterFailure ==
    /\ pc = "done"
    /\ concurrency = 1
    /\ Len(results) = 2
    /\ results[1] = FailureResult(files[1], "decode")
    /\ results[2].success
    /\ results[2].inputPath = files[2]

\* main is preparing the output root (lines 89-106)
PreparingOutput ==
    pc \in {"cleanRm", "cleanMkdir", "ensureOutAccess", "ensureOutMkdir"}

\* C5: a failure while preparing the output root, in clearing it or in
\* creating it, does not terminate the run: no step of the preparation
\* ends the process.
C5_PreparationNeverTerminates ==
    [][PreparingOutput => pc' # "exited"]_vars

\* the input root does not exist
InputMissing == inputPath \notin fsDirs /\ inputPath \notin DOMAIN fsFiles

\* the run ended in the catch of line 60
InputCheckFailed == pc = "exited" /\ exitCode = 1 /\ files = <<>>

\* the output root is as it was before the run: it holds the stale file of
\* the earlier run, or it does not exist
OutputUntouched ==
    /\ (outputPath \in fsDirs) = (StaleFile \in DOMAIN fsFiles)
    /\ \A d \in fsDirs : IsPrefix(outputPath, d) => d = outputPath
    /\ \A f \in DOMAIN fsFiles : IsPrefix(outputPath, f) => f = StaleFile

\* C6: with the input root missing or inaccessible the run ends with status 1
\* before discovery, before the output root is cleared or created, and before
\* any job is started.
C6_MissingInputIsFatalFirst ==
    (InputMissing \/ InputCheckFailed) =>
        /\ pc \in {"start", "ask", "checkInput", "exited"}
        /\ pc = "exited" => exitCode = 1
        /\ files = <<>>
        /\ idx = 0
        /\ results = <<>>
        /\ executing = <<>>
        /\ ~warned
        /\ summary = NoSummary
        /\ OutputUntouched

\* C6 witness: the run ended with status 1 on a missing input root, the stale
\* output still in place
C6_Witness_ExitedOnMissingInput ==
    /\ InputMissing
    /\ pc = "exited"
    /\ exitCode = 1
    /\ StaleFile \in DOMAIN fsFiles

\* discovery ran and found no file (an exit with status 1 and no file is
\* the input check's)
DiscoveredNothing ==
    /\ files = <<>>
    /\ pc \notin {"start", "ask", "checkInput", "find"}
    /\ ~InputCheckFailed

ZeroSummary(s) ==
    /\ s.successCount = 0
    /\ s.failCount = 0
    /\ s.totalOriginalSize = 0
    /\ s.avifReduction = 0
    /\ s.fallbackReduction = 0

Reorderings(rs) ==
    {[i \in 1..Len(rs) |-> rs[p[i]]] : p \in Perms(1..Len(rs))}

\* the counts, totals and percentages of a summary
Aggregate(s) ==
    <<s.successCount, s.failCount, s.totalOriginalSize, s.totalAvifSize,
      s.totalFallbackSize, s.avifReduction, s.fallbackReduction>>

\* C8: printSummary computes the same counts, totals and reduction
\* percentages for every permutation of a result collection.
C8_AggregateOrderIndependent ==
    summary # NoSummary =>
        \A p \in Reorderings(results) :
            Aggregate(PrintSummary(p)) = Aggregate(summary)

\* C8 witness: a summary of three results, a failure among them, that are
\* not all the same
C8_Witness_MixedCollectionSummarised ==
    /\ summary # NoSummary
    /\ Len(results) = 3
    /\ ~results[1].success
    /\ results[2].success
    /\ results[3].success
    /\ results[2] # results[3]

RECURSIVE SumSeq(_)
SumSeq(ns) ==
    IF ns = <<>> THEN 0
    ELSE ns[Len(ns)] + SumSeq(SubSeq(ns, 1, Len(ns) - 1))

ExpectedOriginal(rs) ==
    SumSeq([i \in 1..Len(rs) |->
                IF rs[i].success THEN rs[i].originalSize ELSE 0])
ExpectedAvif(rs) ==
    SumSeq([i \in 1..Len(rs) |->
                IF rs[i].success THEN rs[i].avif.size ELSE 0])
ExpectedFallback(rs) ==
    SumSeq([i \in 1..Len(rs) |->
                IF rs[i].success THEN rs[i].fallback.size ELSE 0])

Abs(n) == IF n < 0 THEN -n ELSE n

\* pct is an integer nearest to 100 * (1 - part / total)
Nearest(pct, part, total) ==
    2 * Abs(pct * total - 100 * (total - part)) <= total

\* the totals are the sums over the successful results, a percentage is a
\* nearest integer, and 0 when nothing was measured
TotalsAndRounding(s, rs) ==
    /\ s.totalOriginalSize = ExpectedOriginal(rs)
    /\ s.totalAvifSize = ExpectedAvif(rs)
    /\ s.totalFallbackSize = ExpectedFallback(rs)
    /\ IF s.totalOriginalSize > 0
       THEN /\ Nearest(s.avifReduction, s.totalAvifSize, s.totalOriginalSize)
            /\ Nearest(s.fallbackReduction, s.totalFallbackSize,
                       s.totalOriginalSize)
       ELSE s.avifReduction = 0 /\ s.fallbackReduction = 0

\* C9, as claimed: the totals and the rounding, and a percentage is negative
\* whenever the artifact total exceeds the original total.
C9_Original_NegativeWheneverLarger ==
    summary # NoSummary =>
        /\ TotalsAndRounding(summary, results)
        /\ summary.totalAvifSize > summary.totalOriginalSize
              /\ summary.totalOriginalSize > 0
              => summary.avifReduction < 0
        /\ summary.totalFallbackSize > summary.totalOriginalSize
              /\ summary.totalOriginalSize > 0
              => summary.fallbackReduction < 0

\* the percentage of an artifact total that exceeds the original total is
\* not clamped: negative when the excess is above 0.5% of the original
\* total, and 0 (the rounding of a value in [-0.5, 0)) when it is not
NotClamped(pct, part, total) ==
    (part > total /\ total > 0) =>
        IF 200 * (part - total) > total THEN pct < 0 ELSE pct = 0

\* C9, amended: the totals and the rounding, and the percentage of an
\* artifact total that exceeds the original total is the rounded value,
\* unclamped: negative when the excess is above 0.5%, else 0.
C9_TotalsRoundedUnclamped ==
    summary # NoSummary =>
        /\ TotalsAndRounding(summary, results)
        /\ NotClamped(summary.avifReduction, summary.totalAvifSize,
                      summary.totalOriginalSize)
        /\ NotClamped(summary.fallbackReduction, summary.totalFallbackSize,
                      summary.totalOriginalSize)

\* C9 witness: a summary with a failed result, an AVIF total far above the
\* original total and a negative percentage
C9_Witness_NegativeReduction ==
    /\ summary # NoSummary
    /\ summary.failCount > 0
    /\ summary.totalOriginalSize > 0
    /\ summary.totalAvifSize > 2 * summary.totalOriginalSize
    /\ summary.avifReduction < -100

\* name is b.ext with the "." at k: b is not empty and ext is not empty and
\* holds no "."
BaseDotExtAt(name, k) ==
    /\ 1 < k
    /\ k < Len(name)
    /\ name[k] = "."
    /\ \A i \in (k + 1)..Len(name) : name[i] # "."

\* the files under the output root
OutputFiles == {f \in DOMAIN fsFiles : IsPrefix(outputPath, f)}

\* C10: for an input file at input-root/d/b.ext, convertImage writes the
\* primary artifact at output-root/d/b.avif and the fallback artifact at
\* output-root/d/b.ext, and nothing else.
C10_OutputMirrorsInput ==
    \A j \in JobIds :
        LET f == files[j]
            d == SubSeq(f, Len(inputPath) + 1, Len(f) - 1)
            name == f[Len(f)]
        IN  \A k \in 1..Len(name) :
                BaseDotExtAt(name, k) =>
                    LET primary ==
                            outputPath \o d
                            \o << SubSeq(name, 1, k - 1)
                                  \o <<".", "a", "v", "i", "f">> >>
                        fallback == outputPath \o d \o <<name>>
                    IN  /\ job[j].pc \in {"avifStat", "fallback"}
                            => OutputFiles = {primary}
                        /\ job[j].pc = "fallbackStat"
                            => OutputFiles = {primary, fallback}
                        /\ job[j].pc = "settled" /\ job[j].result.success
                            => /\ job[j].result.avif.path = primary
                               /\ job[j].result.fallback.path = fallback
                               /\ OutputFiles = {primary, fallback}
                        /\ OutputFiles \subseteq {primary, fallback}

\* C10 witness: in/d/e/aa.p was converted to out/d/e/aa.avif and out/d/e/aa.p
C10_Witness_NestedFileConverted ==
    /\ pc = "done"
    /\ Len(results) = 1
    /\ results[1].success
    /\ results[1].inputPath =
          InputRoot \o << <<"d">>, <<"e">>, <<"a", "a", ".", "p">> >>
    /\ OutputFiles =
          {OutputRoot \o << <<"d">>, <<"e">>,
                            <<"a", "a", ".", "a", "v", "i", "f">> >>,
           OutputRoot \o << <<"d">>, <<"e">>, <<"a", "a", ".", "p">> >>}

\* the status of a run in which main returns from printSummary (line 153)
ProcessedStatus == 0

\* discovery found no file and the run has ended
EndedOnEmptyList == DiscoveredNothing /\ pc = "exited"

\* C11: the exit status tells a run that found no file from a run that found
\* and processed files: every run that processed its files ends with one and
\* the same status, whatever number of its jobs failed, and a run that found
\* no file ends with another.
C11_StatusTellsFoundFromEmpty ==
    /\ pc = "done" => exitCode = ProcessedStatus
    /\ EndedOnEmptyList => exitCode # ProcessedStatus

\* the positions of the failed results in the result collection
FailedPositions == {i \in 1..Len(results) : ~results[i].success}

\* C12: the error listing of the summary holds each failed result exactly
\* once, with its input path and its error message, in the order in which the
\* results were collected, and no successful result.
C12_ErrorListingIsFailuresInOrder ==
    summary # NoSummary =>
        /\ Len(summary.errors) = Cardinality(FailedPositions)
        /\ \E at \in [1..Len(summary.errors) -> FailedPositions] :
              /\ \A k \in 1..(Len(summary.errors) - 1) : at[k] < at[k + 1]
              /\ \A k \in 1..Len(summary.errors) :
                    summary.errors[k] =
                        <<results[at[k]].inputPath, results[at[k]].error>>

\* C12 witness: a failure, a success and another failure with another
\* message were collected in this order and summarised
C12_Witness_TwoFailuresAroundSuccess ==
    /\ summary # NoSummary
    /\ Len(results) = 3
    /\ ~results[1].success
    /\ results[2].success
    /\ ~results[3].success
    /\ results[1].error # results[3].error
    /\ Len(summary.errors) = 2

\* the jobs that were started
Started == {j \in JobIds : job[j].pc # "idle"}

\* the jobs that completed
Completed == {j \in JobIds : job[j].pc = "settled"}

\* the jobs started are the first idx of the list
StartedIsPrefix == Started = 1..idx

\* a step starts at most one job, the next of the list, and a job is started
\* by such a step only
StartsNextOfList ==
    Started' # Started =>
        /\ idx' = idx + 1
        /\ Started' = Started \cup {idx + 1}

\* a step changes results only by appending the result of the one job that
\* completes in it
AppendsOnCompletion ==
    (results' # results \/ Completed' # Completed) =>
        \E j \in JobIds \ Completed :
            /\ Completed' = Completed \cup {j}
            /\ results' = Append(results, job'[j].result)
            /\ job'[j].result.inputPath = files[j]

\* what the window allows: job j is started with at most concurrency jobs in
\* flight, itself among them, so at least j - concurrency results come first
WithinWindow ==
    \A p \in 1..Len(results) : \A j \in JobIds :
        results[p].inputPath = files[j] => p > j - concurrency

\* C13: jobs are started in input order, job i before job j for every i < j,
\* whatever the order of the completions; results are appended in completion
\* order, an order the window allows.
C13_StartedInInputOrder ==
    /\ [](StartedIsPrefix /\ WithinWindow)
    /\ [][StartsNextOfList /\ AppendsOnCompletion]_vars

\* C13 witness: of two jobs started in input order the second completed
\* first, so the results are not in input order
C13_Witness_SecondCompletedFirst ==
    /\ pc = "done"
    /\ Len(results) = 2
    /\ results[1].inputPath = files[2]
    /\ results[2].inputPath = files[1]

\* jobs of the list are still to be started
UnstartedRemain == idx < Len(files)

\* main waits in Promise.race and one of the raced jobs has completed
OneCompleted == pc = "race" /\ \E j \in waitSet : job[j].pc = "settled"

\* C14: the window slides: main suspends in the loop only with the in-flight
\* set at the limit, and while unstarted jobs remain the completion of one
\* job in flight lets main resume and start the next job at once, the other
\* jobs still in flight.
C14_WindowSlides ==
    /\ (pc = "race" /\ ~OneCompleted) =>
          /\ Len(executing) = concurrency
          /\ Cardinality(InFlight) = concurrency
    /\ (pc = "loop" /\ UnstartedRemain) => Len(executing) < concurrency
    /\ OneCompleted => ENABLED RaceResume
    /\ (pc = "loop" /\ UnstartedRemain) => ENABLED LoopStartJob

\* C14 witness: the third of three jobs was started on the completion of the
\* second, the first still in flight
C14_Witness_ThirdStartedWhileFirstRuns ==
    /\ concurrency = 2
    /\ Len(files) = 3
    /\ job[2].pc = "settled"
    /\ job[1].pc \notin {"idle", "settled"}
    /\ job[3].pc \notin {"idle", "settled"}

\* executing without the entry of job j, the other entries as they were
WithoutEntry(queue, j) ==
    LET keep(e) == e # j
    IN  SelectSeq(queue, keep)

\* executing holds the jobs in flight, each once, and results the results of
\* the completed jobs, each once
InFlightAndResultsExact ==
    /\ Range(executing) = InFlight
    /\ Len(executing) = Cardinality(InFlight)
    /\ Len(results) = Cardinality(Completed)
    /\ \A j \in JobIds :
          IF j \in Completed
          THEN \E i \in 1..Len(results) :
                  /\ ResultsOf(j) = {i}
                  /\ results[i] = job[j].result
          ELSE ResultsOf(j) = {}

\* the step in which job j completes removes the entry of j and no other from
\* executing and appends the result of j; no other step removes an entry or
\* changes results
CompletionRemovesOwnEntry ==
    /\ \A j \in JobIds :
          (j \notin Completed /\ j \in Completed') =>
              /\ j \in Range(executing)
              /\ executing' = WithoutEntry(executing, j)
              /\ results' = Append(results, job'[j].result)
    /\ Completed' = Completed =>
          /\ results' = results
          /\ Range(executing) \subseteq Range(executing')

\* C15: in every reachable state executing is exactly the set of jobs started
\* and not yet completed and results holds exactly the results of the
\* completed jobs; the completion of a job removes its own entry and no
\* other from executing and appends its result exactly once.
C15_ExecutingIsInFlight ==
    /\ []InFlightAndResultsExact
    /\ [][CompletionRemovesOwnEntry]_vars

\* C15 witness: with two jobs in flight the second completed; executing
\* holds the first alone and results the result of the second alone
C15_Witness_SecondLeftFirstStays ==
    /\ Len(files) = 2
    /\ executing = <<1>>
    /\ job[2].pc = "settled"
    /\ Len(results) = 1
    /\ results[1].inputPath = files[2]

\* the steps of convertImage in their order, named by the message of their
\* failure
StepOrder ==
    <<"mkdir", "stat", "decode", "avif encode", "avif stat",
      "fallback encode", "fallback stat">>

\* the step named a comes before the step named b
StepBefore(a, b) == IndexOf(StepOrder, a) < IndexOf(StepOrder, b)

\* job j failed in the step named by its error; what it left on disk is what
\* the steps before that one wrote, and its result holds nothing of them
FailureLeavesEarlierArtifacts(j) ==
    LET r == job[j].result
        primaryWritten == StepBefore("avif encode", r.error)
        fallbackWritten == StepBefore("fallback encode", r.error)
    IN  /\ DOMAIN r = {"success", "inputPath", "error"}
        /\ r.inputPath = files[j]
        /\ r.error \in Range(StepOrder)
        /\ JobOutputFilePath(j) \in DOMAIN fsFiles <=> primaryWritten
        /\ JobFallbackFilePath(j) \in DOMAIN fsFiles <=> fallbackWritten
        /\ ~StepBefore("stat", r.error) => job[j].originalSize = 0
        /\ ~StepBefore("decode", r.error) => job[j].format = ""
        /\ ~StepBefore("avif stat", r.error) => job[j].avifSize = 0

\* no step of a completed job runs: the job and the files it derives stay as
\* they are
CompletedJobIsOver ==
    \A j \in Completed :
        /\ job'[j] = job[j]
        /\ (JobOutputFilePath(j) \in DOMAIN fsFiles)
              = (JobOutputFilePath(j) \in DOMAIN fsFiles')
        /\ (JobFallbackFilePath(j) \in DOMAIN fsFiles)
              = (JobFallbackFilePath(j) \in DOMAIN fsFiles')

\* C16: when a step of convertImage fails no later step of the job runs (no
\* fallback is written when the AVIF encode fails), the result is a failure
\* holding the input path and the error message and no artifact field, and an
\* artifact written by an earlier step of the job stays on disk.
C16_FailureStopsJobKeepsArtifacts ==
    /\ [](\A j \in JobIds : Failed(j) => FailureLeavesEarlierArtifacts(j))
    /\ [][CompletedJobIsOver]_vars

\* C16 witness: the fallback encode of the first job failed after its AVIF
\* was written; the batch is over and the AVIF is on disk without a fallback
C16_Witness_AvifLeftAfterFallbackFailure ==
    /\ pc = "done"
    /\ Failed(1)
    /\ job[1].result.error = "fallback encode"
    /\ JobOutputFilePath(1) \in DOMAIN fsFiles
    /\ JobFallbackFilePath(1) \notin DOMAIN fsFiles

\* job j is past the ensureDirectory of line 188, which did not raise
PastEnsure(j) ==
    \/ job[j].pc \in {"stat", "metadata", "avif", "avifStat", "fallback",
                      "fallbackStat"}
    \/ job[j].pc = "settled" /\ job[j].result.success
    \/ job[j].pc = "settled" /\ ~job[j].result.success
          /\ job[j].result.error # "mkdir"

\* C17: ensureDirectory on a directory that exists does not raise, and when
\* two jobs ensure one missing output directory neither has to raise in any
\* interleaving of their checks and creations: a job whose check missed the
\* directory still creates it, when its continuation runs, after the other
\* job did, and the directory exists once a job is past the call.
C17_EnsureIdempotent ==
    /\ \A j \in JobIds :
          /\ (Suspended /\ job[j].pc = "access"
                /\ JobOutputDir(j) \in fsDirs) =>
                ENABLED (JobAccess(j) /\ job'[j].pc = "stat")
          /\ (Suspended /\ job[j].pc = "mkdir") =>
                ENABLED (JobMkdir(j) /\ job'[j].pc = "stat"
                         /\ JobOutputDir(j) \in fsDirs')
          /\ PastEnsure(j) => JobOutputDir(j) \in fsDirs
    /\ (pc = "checkInput" /\ inputPath \in fsDirs) =>
          ENABLED (CheckInput /\ pc' = "find")
    /\ (pc = "ensureOutAccess" /\ outputPath \in fsDirs) =>
          ENABLED (EnsureOutputAccess /\ pc' = "loop")

\* C17 witness: both jobs found their common output directory missing; the
\* second created it and went on, and the first is about to create it too
C17_Witness_CreatedBetweenCheckAndCreate ==
    /\ Len(files) = 2
    /\ JobOutputDir(1) = JobOutputDir(2)
    /\ job[1].pc = "mkdir"
    /\ PastEnsure(2)
    /\ JobOutputDir(1) \in fsDirs

\* the files job j writes
WrittenBy(j) == {JobOutputFilePath(j), JobFallbackFilePath(j)}

\* C18: for every list of distinct input files under the input root no two
\* jobs write one output file path and the primary and fallback paths of a
\* job differ, so every job that succeeded has left two files of its own
\* under the output root.
C18_JobsWriteFilesOfTheirOwn ==
    /\ \A i \in JobIds : \A j \in JobIds \ {i} :
          WrittenBy(i) \cap WrittenBy(j) = {}
    /\ \A j \in JobIds : JobOutputFilePath(j) # JobFallbackFilePath(j)
    /\ pc = "done" =>
          /\ \A j \in JobIds :
                job[j].result.success => WrittenBy(j) \subseteq OutputFiles
          /\ Cardinality(OutputFiles) >= 2 * summary.successCount

\* the discovered input file of job j is on disk as it was when it was found
InputIntact(j) ==
    /\ files[j] \in DOMAIN fsFiles
    /\ \E k \in 1..Len(Letters) :
          /\ files[j] = CandidateFile(k)
          /\ fsFiles[files[j]] = CandidateContent(k)

\* C19: a run never deletes or overwrites a discovered input file, for every
\* choice of the input root and the output root: the reset of the output
\* root and the writes of the jobs leave every discovered file on disk
\* unchanged, while its job reads it and after the batch.
C19_InputFilesNeverTouched ==
    \A j \in JobIds : InputIntact(j)

\* job j is at an encode, which reads options.quality and options.effort
AtEncode(j) == job[j].pc \in {"avif", "fallback"}

\* C20: in non-interactive mode the config a job encodes with has the
\* quality q and the effort e of the command line, for every q in 0..100
\* and every e in 0..9, and the defaults 80 and 4 only when the option is
\* absent.
C20_GivenQualityAndEffortReachJobs ==
    \A j \in JobIds :
        (AtEncode(j) /\ ~config.isInteractive) =>
            /\ config.quality =
                  IF options.quality = NotGiven THEN DefaultQuality
                  ELSE options.quality[1]
            /\ config.effort =
                  IF options.effort = NotGiven THEN DefaultEffort
                  ELSE options.effort[1]

====
